---- MODULE Spec2Model ----
(***************************************************************************)
(* Verification model of the advbox command-line utilities.                *)
(*                                                                         *)
(*   datediff : the Gregorian calendar <-> Unix-epoch-seconds converter    *)
(*              (date_to_seconds, seconds_to_date)          -> SpecDate    *)
(*   estimate : the warmup / measured execution loop and ExecutionStats    *)
(*                                                          -> SpecEstimate*)
(*   extract  : archive type dispatch and the extract_archive pipeline     *)
(*                                                          -> SpecExtract *)
(*   killport : argument parsing, the root check, the lookup of processes  *)
(*              by port and the kill loop                   -> SpecKillport*)
(*   ftree    : the -L option and the depth-limited walk of print_tree     *)
(*                                                          -> SpecFtree   *)
(*                                                                         *)
(* Each tool is a separate program; each specification moves only the      *)
(* variables of its own tool and leaves the others at their idle value.    *)
(***************************************************************************)
EXTENDS Integers, Sequences, FiniteSets, TLC

VARIABLES
    \* ---- datediff ----
    dd_pc,      \* "idle" | "parsed" | "clock" | "encoded" | "roundtrip" | "decoded"
    dd_date,    \* the DateTime being converted (datediff.rs:35-42)
    dd_secs,    \* an i64 count of seconds since the epoch, -1 before it is known
    dd_out,     \* the tuple returned by seconds_to_date
    \* ---- estimate ----
    es_pc,      \* "idle" | "loop" | "printed" | "exit1"
    es_config,  \* Config {iterations, warmup} (estimate.rs:29-36)
    es_i,       \* the loop variable of main (estimate.rs:222)
    es_stats,   \* ExecutionStats (estimate.rs:39-47)
    es_runs,    \* every run_command call made so far, in order
    es_printed, \* what print_results showed, or the empty sequence
    \* ---- extract ----
    ex_pc,      \* "idle" | "main" | "classify" | "prepare" | "spawn" | "cleanup" | "exit"
    ex_config,  \* Config (extract.rs:30-37)
    ex_fs,      \* the file system: the archive file, the directories created
    ex_command, \* the std::process::Command being built / that was run
    ex_type,    \* the ArchiveType from_path returned, "" before the dispatch
    ex_spawned, \* every external program started so far, in order
    ex_out,     \* lines written to stdout / stderr, in order
    ex_exit,    \* exit status of the process, -1 while it runs
    \* ---- killport ----
    kp_pc,      \* "idle" | "parse" | "collect" | "kill" | "exit"
    kp_args,    \* the command line after the program name, each argument a text
    kp_i,       \* index of the next argument / of the next port to look up
    kp_config,  \* Config (killport.rs:27-33)
    kp_found,   \* port_processes: the (port, processes) entries of the HashMap
    kp_spawned, \* the external programs started so far, in order
    kp_signals, \* every kill_process call made so far, in order
    kp_out,     \* the messages printed so far, in order
    kp_exit,    \* exit status of the process, -1 while it runs
    kp_root,    \* whether the user running killport is root
    \* ---- ftree ----
    ft_pc,      \* "idle" | "main" | "walk" | "done" | "exit"
    ft_args,    \* the command line after the program name, each argument a text
    ft_fs,      \* the directory tree under the root: path -> kind of entry
    ft_config,  \* Config (ftree.rs:29-37)
    ft_stack,   \* the print_tree calls still to be made, the next one first
    ft_out,     \* the paths of the entry lines printed so far, in order
    ft_stats,   \* TreeStats (ftree.rs:40-44)
    ft_summary, \* <<stats>> once the summary is printed
    ft_exit     \* exit status of the process, -1 while it runs

dd_vars == <<dd_pc, dd_date, dd_secs, dd_out>>
es_vars == <<es_pc, es_config, es_i, es_stats, es_runs, es_printed>>
ex_vars == <<ex_pc, ex_config, ex_fs, ex_command, ex_type, ex_spawned, ex_out, ex_exit>>
kp_vars == <<kp_pc, kp_args, kp_i, kp_config, kp_found, kp_spawned, kp_signals, kp_out, kp_exit, kp_root>>
ft_vars == <<ft_pc, ft_args, ft_fs, ft_config, ft_stack, ft_out, ft_stats, ft_summary, ft_exit>>
vars == <<dd_vars, es_vars, ex_vars, kp_vars, ft_vars>>

(***************************************************************************)
(*                               datediff                                  *)
(***************************************************************************)

\* Bounds of the date model.
MaxYear == 1974
MaxDay == 1500

\* Years beyond MaxYear that exercise the divisible-by-400 rule (2000 is a
\* leap year) and the year after it.  Seconds counts from 2038 on exceed
\* the 32-bit integers of the model checker, so 2100 is out of reach.
CenturyYears == {2000, 2001}
Years == (1970..MaxYear) \cup CenturyYears

\* Times of day tried for every date.
TimesOfDay == {<<0, 0, 0>>, <<12, 30, 45>>, <<23, 59, 59>>}

\* ---- the calendar itself (the reference the claims speak of) ----
IsLeapYear(y) == (y % 4 = 0 /\ y % 100 # 0) \/ y % 400 = 0

DaysInYear(y) == IF IsLeapYear(y) THEN 366 ELSE 365

DaysInMonth(y, m) ==
    IF m = 2 THEN (IF IsLeapYear(y) THEN 29 ELSE 28)
    ELSE IF m \in {4, 6, 9, 11} THEN 30 ELSE 31

RECURSIVE DaysBeforeYear(_)
DaysBeforeYear(y) == IF y <= 1970 THEN 0 ELSE DaysBeforeYear(y - 1) + DaysInYear(y - 1)

RECURSIVE DaysBeforeMonth(_, _)
DaysBeforeMonth(y, m) == IF m <= 1 THEN 0 ELSE DaysBeforeMonth(y, m - 1) + DaysInMonth(y, m - 1)

\* True number of days from 1970-01-01 to y-m-d.
TrueDays(y, m, d) == DaysBeforeYear(y) + DaysBeforeMonth(y, m) + (d - 1)

\* True number of seconds from 1970-01-01 00:00:00 to the date-time dt.
TrueSeconds(dt) ==
    TrueDays(dt.year, dt.month, dt.day) * 86400
        + dt.hour * 3600 + dt.minute * 60 + dt.second

\* Number of February-29 days between 1970-01-01 and a date in (y, m).
LeapDaysBefore(y, m) ==
    Cardinality({k \in 1970..(y - 1) : IsLeapYear(k)})
        + (IF IsLeapYear(y) /\ m > 2 THEN 1 ELSE 0)

IsValidDateTime(dt) ==
    /\ dt.year >= 1970
    /\ dt.month \in 1..12
    /\ dt.day \in 1..DaysInMonth(dt.year, dt.month)
    /\ dt.hour \in 0..23
    /\ dt.minute \in 0..59
    /\ dt.second \in 0..59

\* ---- the program ----
DateTime(year, month, day, hour, minute, second) ==
    [year |-> year, month |-> month, day |-> day,
     hour |-> hour, minute |-> minute, second |-> second]

NoDate == DateTime(0, 0, 0, 0, 0, 0)

\* let days_before_month = [0, 31, 59, ...]   (datediff.rs:153)
days_before_month == <<0, 31, 59, 90, 120, 151, 181, 212, 243, 273, 304, 334>>

\* let month_days = [31, 28, 31, ...]         (datediff.rs:198)
month_days == <<31, 28, 31, 30, 31, 30, 31, 31, 30, 31, 30, 31>>

\* datediff.rs:159-160, with years = year - 1970.  All operands are
\* non-negative for year >= 1970, so Rust's truncating division is \div.
leap_years(year) ==
    LET years == year - 1970
    IN  ((1968 + years) \div 4) - ((1968 + years) \div 100) + ((1968 + years) \div 400)
            - (1968 \div 4) + (1968 \div 100) - (1968 \div 400)

\* datediff.rs:164: the test on the current year.
current_year_leap_day(year, month) ==
    IF month > 2 /\ ((year % 4 = 0 /\ year % 100 # 0) \/ year % 400 = 0) THEN 1 ELSE 0

\* Everything date_to_seconds adds to `days` on account of leap years
\* (datediff.rs:159-166).
leap_correction(year, month) == leap_years(year) + current_year_leap_day(year, month)

\* datediff.rs:151-169.  `years` is computed at line 155 and used only inside
\* leap_years: no multiple of 365 is ever added to `days`.
date_to_seconds(year, month, day, hour, minute, second) ==
    LET days0 == days_before_month[month] + day - 1
        days1 == days0 + leap_years(year)
        days  == days1 + current_year_leap_day(year, month)
    IN  days * 86400 + hour * 3600 + minute * 60 + second

\* The while loop of seconds_to_date (datediff.rs:183-196): returns
\* <<year, days_remaining>> on exit.
RECURSIVE year_loop(_, _)
year_loop(year, days_remaining) ==
    IF days_remaining >= 365
    THEN LET days_in_year ==
                 IF (year % 4 = 0 /\ year % 100 # 0) \/ year % 400 = 0 THEN 366 ELSE 365
         IN  IF days_remaining >= days_in_year
             THEN year_loop(year + 1, days_remaining - days_in_year)
             ELSE <<year, days_remaining>>
    ELSE <<year, days_remaining>>

\* A mutation of month_loop: the day is compared with >= instead of >.
RECURSIVE month_loop_off(_, _, _, _)
month_loop_off(i, is_leap, month, day) ==
    IF i > Len(month_days) THEN <<month, day>>
    ELSE LET dim == month_days[i] + (IF i = 2 /\ is_leap THEN 1 ELSE 0)
         IN  IF day >= dim
             THEN month_loop_off(i + 1, is_leap, month + 1, day - dim)
             ELSE <<month, day>>

\* The for loop over month_days (datediff.rs:205-217), entered at index i
\* (1-based here): returns <<month, day>>.
RECURSIVE month_loop(_, _, _, _)
month_loop(i, is_leap, month, day) ==
    IF i > Len(month_days) THEN <<month, day>>
    ELSE LET dim == month_days[i] + (IF i = 2 /\ is_leap THEN 1 ELSE 0)
         IN  IF day > dim
             THEN month_loop(i + 1, is_leap, month + 1, day - dim)
             ELSE <<month, day>>

\* datediff.rs:172-220, for secs >= 0 (/ and % of Rust agree with \div, %).
seconds_to_date(secs) ==
    LET days        == secs \div 86400
        secs_of_day == secs % 86400
        hour        == secs_of_day \div 3600
        minute      == (secs_of_day % 3600) \div 60
        second      == secs_of_day % 60
        yd          == year_loop(1970, days)
        year        == yd[1]
        is_leap     == (year % 4 = 0 /\ year % 100 # 0) \/ year % 400 = 0
        md          == month_loop(1, is_leap, 1, yd[2] + 1)
    IN  DateTime(year, md[1], md[2], hour, minute, second)

\* The valid Gregorian date-times handed to the converter.
DateInputs ==
    {DateTime(y, m, d, t[1], t[2], t[3]) :
        y \in Years, m \in 1..12, d \in 1..31, t \in TimesOfDay}

ValidDateInputs == {dt \in DateInputs : IsValidDateTime(dt)}

\* Days since the epoch handed to seconds_to_date as the clock reading.
DayInputs ==
    (0..MaxDay) \cup
    {TrueDays(y, m, d) : y \in CenturyYears, m \in {1, 2, 3, 12}, d \in {1, 28, 29, 30, 31}}

ClockInputs == {d * 86400 + t[1] * 3600 + t[2] * 60 + t[3] : d \in DayInputs, t \in TimesOfDay}

dd_Idle ==
    /\ dd_pc = "idle" /\ dd_date = NoDate /\ dd_secs = -1 /\ dd_out = NoDate

dd_Init ==
    \/ /\ dd_pc = "parsed"
       /\ dd_date \in ValidDateInputs
       /\ dd_secs = -1
       /\ dd_out = NoDate
    \/ /\ dd_pc = "clock"
       /\ dd_date = NoDate
       /\ dd_secs \in ClockInputs
       /\ dd_out = NoDate

\* DateTime::to_seconds (datediff.rs:144-147), as called by calculate_diff
\* (datediff.rs:234-235) and by yesterday / tomorrow.
ToSeconds ==
    /\ dd_pc = "parsed"
    /\ dd_secs' = date_to_seconds(dd_date.year, dd_date.month, dd_date.day,
                                  dd_date.hour, dd_date.minute, dd_date.second)
    /\ dd_pc' = "encoded"
    /\ UNCHANGED <<dd_date, dd_out>>

\* DateTime::now (datediff.rs:115-123): decode the clock reading.
Now ==
    /\ dd_pc = "clock"
    /\ dd_out' = seconds_to_date(dd_secs)
    /\ dd_pc' = "decoded"
    /\ UNCHANGED <<dd_date, dd_secs>>

\* Decoding a value that date_to_seconds produced (the second half of
\* yesterday / tomorrow, datediff.rs:133 and 140).
DecodeEncoded ==
    /\ dd_pc = "encoded"
    /\ dd_out' = seconds_to_date(dd_secs)
    /\ dd_pc' = "roundtrip"
    /\ UNCHANGED <<dd_date, dd_secs>>

(***************************************************************************)
(*                               estimate                                  *)
(***************************************************************************)

\* Bounds of the estimate model.
MaxWarmup == 2
MaxIterations == 2
MaxDuration == 2

\* Durations a run can take, in a whole unit of time.
Durations == 1..MaxDuration

es_Idle ==
    /\ es_pc = "idle" /\ es_config = <<>> /\ es_i = 0
    /\ es_stats = <<>> /\ es_runs = <<>> /\ es_printed = <<>>

\* ExecutionStats::new (estimate.rs:50-60).
ExecutionStats_new ==
    [times |-> <<>>, min |-> 0, max |-> 0, avg |-> 0, total_time |-> 0,
     success_count |-> 0, fail_count |-> 0]

\* A mutation of add_execution: a failed execution is counted but its
\* duration is left out of the times.
add_execution_okonly(stats, duration, success) ==
    IF success
    THEN LET times      == Append(stats.times, duration)
             total_time == stats.total_time + duration
         IN  [times         |-> times,
              total_time    |-> total_time,
              success_count |-> stats.success_count + 1,
              fail_count    |-> stats.fail_count,
              min           |-> IF Len(times) = 1 \/ duration < stats.min THEN duration ELSE stats.min,
              max           |-> IF Len(times) = 1 \/ duration > stats.max THEN duration ELSE stats.max,
              avg           |-> total_time \div Len(times)]
    ELSE [stats EXCEPT !.fail_count = @ + 1]

\* ExecutionStats::add_execution (estimate.rs:62-83).
add_execution(stats, duration, success) ==
    LET times      == Append(stats.times, duration)
        total_time == stats.total_time + duration
    IN  [times         |-> times,
         total_time    |-> total_time,
         success_count |-> IF success THEN stats.success_count + 1 ELSE stats.success_count,
         fail_count    |-> IF success THEN stats.fail_count ELSE stats.fail_count + 1,
         min           |-> IF Len(times) = 1 \/ duration < stats.min THEN duration ELSE stats.min,
         max           |-> IF Len(times) = 1 \/ duration > stats.max THEN duration ELSE stats.max,
         avg           |-> total_time \div Len(times)]

\* let total_runs = config.warmup + config.iterations   (estimate.rs:212)
total_runs(config) == config.warmup + config.iterations

\* The command lines from the first non-option argument on.  An argument is
\* the sequence of its space-separated words: <<"sleep", "1">> is the one
\* argument written "sleep 1" in the shell.
CommandTails ==
    {<<<<"ls">>>>, <<<<"ls">>, <<"-la">>>>, <<<<"sleep", "1">>>>}

\* The default arm of parse_args (estimate.rs:133-137):
\* config.command = args[i]; config.args = args[i + 1..].
command_of(tail) == [command |-> tail[1], args |-> Tail(tail)]

\* What run_command hands to the process spawn (estimate.rs:160-161):
\* Command::new(command).args(args).
spawn_of(config) == [program |-> config.command, args |-> config.args]

\* A mutation of is_measured: the first measured run is dropped as well.
is_measured_late(i, config) == i > config.warmup

\* if i >= config.warmup   (estimate.rs:229)
is_measured(i, config) == i >= config.warmup

\* The Config that parse_args returns (estimate.rs:92-146): iterations is at
\* least 1 (estimate.rs:115-117), warmup is any usize, command and args come
\* from the first non-option argument and what follows it.
es_Init ==
    /\ es_pc = "loop"
    /\ es_config \in {[iterations |-> n, warmup |-> w,
                        command |-> command_of(t).command, args |-> command_of(t).args] :
                           n \in 1..MaxIterations, w \in 0..MaxWarmup, t \in CommandTails}
    /\ es_i = 0
    /\ es_stats = ExecutionStats_new
    /\ es_runs = <<>>
    /\ es_printed = <<>>

\* One iteration of the loop of main (estimate.rs:222-238) in which
\* run_command (estimate.rs:157-168) returns Ok((duration, success)).
RunCommandOk ==
    /\ es_pc = "loop"
    /\ es_i < total_runs(es_config)
    /\ \E duration \in Durations, success \in BOOLEAN :
        /\ es_runs' = Append(es_runs, [spawned |-> TRUE, duration |-> duration,
                                       success |-> success,
                                       program |-> spawn_of(es_config).program,
                                       args    |-> spawn_of(es_config).args])
        /\ es_stats' = IF is_measured(es_i, es_config)
                       THEN add_execution(es_stats, duration, success)
                       ELSE es_stats
    /\ es_i' = es_i + 1
    /\ UNCHANGED <<es_pc, es_config, es_printed>>

\* One iteration in which the spawn fails: run_command returns Err and main
\* exits with status 1 (estimate.rs:233-236).
RunCommandErr ==
    /\ es_pc = "loop"
    /\ es_i < total_runs(es_config)
    /\ es_runs' = Append(es_runs, [spawned |-> FALSE, duration |-> 0, success |-> FALSE,
                                   program |-> spawn_of(es_config).program,
                                   args    |-> spawn_of(es_config).args])
    /\ es_pc' = "exit1"
    /\ UNCHANGED <<es_config, es_i, es_stats, es_printed>>

\* The loop is over: print_results (estimate.rs:178-200, 244).
PrintResults ==
    /\ es_pc = "loop"
    /\ es_i = total_runs(es_config)
    /\ es_printed' = <<[iterations |-> Len(es_stats.times),
                        successful |-> es_stats.success_count,
                        failed     |-> es_stats.fail_count,
                        min        |-> es_stats.min,
                        max        |-> es_stats.max,
                        avg        |-> es_stats.avg,
                        total      |-> es_stats.total_time]>>
    /\ es_pc' = "printed"
    /\ UNCHANGED <<es_config, es_i, es_stats, es_runs>>

(***************************************************************************)
(*                               extract                                   *)
(***************************************************************************)

ex_Idle ==
    /\ ex_pc = "idle" /\ ex_config = <<>> /\ ex_fs = <<>>
    /\ ex_command = <<>> /\ ex_type = "" /\ ex_spawned = <<>>
    /\ ex_out = <<>> /\ ex_exit = -1

\* ---- file names ----
\* A file name is the sequence of its parts between dots: "a.tar.gz" is
\* <<"a", "tar", "gz">>, ".tar" is <<"", "tar">>, "" is <<"">>.
\* BadUtf8 stands for a part holding bytes that are not valid UTF-8.
BadUtf8 == "\\xFF"

Stems == {"a", "", BadUtf8}
Middles == {<<>>, <<"tar">>, <<"TAR">>, <<"b">>}
Extensions == {"tar", "gz", "bz2", "xz", "zst", "tgz", "tbz2", "txz", "zip", "7z", "rar",
               "TGZ", "Zip", "GZ", "txt"}

FileNames ==
    {<<st>> \o mid \o e : st \in Stems, mid \in Middles,
                          e \in {<<>>} \cup {<<x>> : x \in Extensions}}

EmptyName == <<"">>

\* str::to_lowercase on one part (extract.rs:62).
to_lowercase_part(part) ==
    CASE part = "TAR" -> "tar"
      [] part = "GZ"  -> "gz"
      [] part = "TGZ" -> "tgz"
      [] part = "Zip" -> "zip"
      [] OTHER        -> part

to_lowercase(name) == [k \in 1..Len(name) |-> to_lowercase_part(name[k])]

\* OsStr::to_str: None (here "none") unless every byte is valid UTF-8.
is_utf8(name) == \A k \in 1..Len(name) : name[k] # BadUtf8

\* path.file_name().and_then(|n| n.to_str()).unwrap_or("")   (extract.rs:58-60)
file_name_str(name) == IF is_utf8(name) THEN name ELSE EmptyName

\* path.extension().and_then(|e| e.to_str()).unwrap_or("")   (extract.rs:54-56)
\* Path::extension is the part after the last dot; there is none when the
\* name has no dot, or when its only dot is the leading one.
extension_str(name) ==
    IF Len(name) >= 2 /\ ~(Len(name) = 2 /\ name[1] = "") /\ name[Len(name)] # BadUtf8
    THEN name[Len(name)]
    ELSE ""

\* n.ends_with(".<e1>.<e2>")
ends_with2(n, e1, e2) ==
    Len(n) >= 3 /\ n[Len(n) - 1] = e1 /\ n[Len(n)] = e2

ArchiveTypes == {"Zip", "Tar", "TarGz", "TarBz2", "TarXz", "TarZst", "SevenZip", "Rar",
                 "Unknown"}

\* ArchiveType::from_path (extract.rs:53-76); the arms are tried in order.
from_path(path) ==
    LET n   == to_lowercase(file_name_str(path.name))
        ext == to_lowercase_part(extension_str(path.name))
    IN  CASE ends_with2(n, "tar", "gz")  -> "TarGz"
          [] ends_with2(n, "tar", "bz2") -> "TarBz2"
          [] ends_with2(n, "tar", "xz")  -> "TarXz"
          [] ends_with2(n, "tar", "zst") -> "TarZst"
          [] OTHER ->
             CASE ext = "tgz"  -> "TarGz"
               [] ext = "tbz2" -> "TarBz2"
               [] ext = "txz"  -> "TarXz"
               [] ext = "zip"  -> "Zip"
               [] ext = "tar"  -> "Tar"
               [] ext = "7z"   -> "SevenZip"
               [] ext = "rar"  -> "Rar"
               [] OTHER        -> "Unknown"

\* Option<(&str, Vec<&str>)>: None is NoCommand.
NoCommand == [cmd |-> "", args |-> <<>>]
SomeCommand(cmd, args) == [cmd |-> cmd, args |-> args]

\* ArchiveType::get_command (extract.rs:78-90).
get_command(t) ==
    CASE t = "Zip"      -> SomeCommand("unzip", <<"-q">>)
      [] t = "Tar"      -> SomeCommand("tar", <<"-xf">>)
      [] t = "TarGz"    -> SomeCommand("tar", <<"-xzf">>)
      [] t = "TarBz2"   -> SomeCommand("tar", <<"-xjf">>)
      [] t = "TarXz"    -> SomeCommand("tar", <<"-xJf">>)
      [] t = "TarZst"   -> SomeCommand("tar", <<"--zstd", "-xf">>)
      [] t = "SevenZip" -> SomeCommand("7z", <<"x">>)
      [] t = "Rar"      -> SomeCommand("unrar", <<"x">>)
      [] OTHER          -> NoCommand

\* A mutation of get_list_command: the Rar arm was forgotten.
get_list_command_norar(t) ==
    CASE t = "Zip"      -> SomeCommand("unzip", <<"-l">>)
      [] t = "Tar"      -> SomeCommand("tar", <<"-tf">>)
      [] t = "TarGz"    -> SomeCommand("tar", <<"-tzf">>)
      [] t = "TarBz2"   -> SomeCommand("tar", <<"-tjf">>)
      [] t = "TarXz"    -> SomeCommand("tar", <<"-tJf">>)
      [] t = "TarZst"   -> SomeCommand("tar", <<"--zstd", "-tf">>)
      [] t = "SevenZip" -> SomeCommand("7z", <<"l">>)
      [] OTHER          -> NoCommand

\* ArchiveType::get_list_command (extract.rs:92-104).
get_list_command(t) ==
    CASE t = "Zip"      -> SomeCommand("unzip", <<"-l">>)
      [] t = "Tar"      -> SomeCommand("tar", <<"-tf">>)
      [] t = "TarGz"    -> SomeCommand("tar", <<"-tzf">>)
      [] t = "TarBz2"   -> SomeCommand("tar", <<"-tjf">>)
      [] t = "TarXz"    -> SomeCommand("tar", <<"-tJf">>)
      [] t = "TarZst"   -> SomeCommand("tar", <<"--zstd", "-tf">>)
      [] t = "SevenZip" -> SomeCommand("7z", <<"l">>)
      [] t = "Rar"      -> SomeCommand("unrar", <<"l">>)
      [] OTHER          -> NoCommand

\* A mutation of select_command: the extraction command whatever the mode.
select_command_extract(config, t) == get_command(t)

\* if config.list_only { get_list_command() } else { get_command() }
\* (extract.rs:123-127)
select_command(config, t) ==
    IF config.list_only THEN get_list_command(t) ELSE get_command(t)

\* The format-specific options (extract.rs:136-162).
format_options(cmd, config) ==
    CASE cmd = "unzip" -> (IF config.force THEN <<"-o">> ELSE <<>>)
                              \o (IF config.quiet THEN <<"-qq">> ELSE <<>>)
      [] cmd = "7z"    -> (IF config.quiet THEN <<"-bd">> ELSE <<>>)
                              \o (IF config.force THEN <<"-y">> ELSE <<>>)
      [] cmd = "unrar" -> (IF config.force THEN <<"-o+">> ELSE <<>>)
                              \o (IF config.quiet THEN <<"-inul">> ELSE <<>>)
      [] OTHER         -> <<>>

\* A mutation of should_remove: the list flag is not looked at.
should_remove_nolist(config) == ~config.keep

\* if !config.keep && !config.list_only   (extract.rs:190)
should_remove(config) == ~config.keep /\ ~config.list_only

\* ---- paths ----
\* The directory extract was started in.
StartDir == "/w"

\* No destination argument: Config.destination is None.
NoDest == "<none>"

\* Where a directory path leads when resolved in directory cwd.
ResolveDir(dir, cwd) == IF dir = "." \/ dir = "" THEN cwd ELSE dir

\* The file a path designates for a process whose working directory is cwd:
\* a path without a directory part is relative to cwd.
ResolveFile(path, cwd) == [dir |-> ResolveDir(path.dir, cwd), name |-> path.name]

\* NoPath is PathBuf::new(), the empty path (extract.rs:206).
NoPath == [dir |-> "", name |-> EmptyName]

\* std::process::Command: program, arguments, the archive path argument
\* added last (extract.rs:164), working directory, and how its run ended:
\* "" (not run), "spawn_error", "exit_nonzero" or "exit_zero".
NoProcess == [program |-> "", args |-> <<>>, archive |-> NoPath, cwd |-> "", status |-> ""]

\* The Config main builds from the arguments (extract.rs:204-242); a first
\* positional argument is the archive, the last further one the destination.
ex_Configs ==
    [archive_path : [dir : {"", "/s"}, name : FileNames],
     destination  : {NoDest, ".", "/d"},
     list_only    : BOOLEAN,
     force        : BOOLEAN,
     quiet        : BOOLEAN,
     keep         : BOOLEAN]

ex_Init ==
    /\ ex_pc = "main"
    /\ ex_config \in {c \in ex_Configs :
                        c.archive_path.name = EmptyName =>
                            c.archive_path.dir = "" /\ c.destination = NoDest}
    /\ ex_fs \in [archive : BOOLEAN, created : {{}}, remove : {""}]
    /\ ex_command = NoProcess
    /\ ex_type = ""
    /\ ex_spawned = <<>>
    /\ ex_out = <<>>
    /\ ex_exit = -1

\* eprintln!("Error: {}", e); exit(1)   (extract.rs:262-265)
ex_Fail(e) ==
    /\ ex_out' = Append(ex_out, e)
    /\ ex_exit' = 1
    /\ ex_pc' = "exit"

\* main after the argument loop (extract.rs:244-254).
MainChecks ==
    /\ ex_pc = "main"
    /\ IF ex_config.archive_path = NoPath
       THEN ex_Fail("No archive specified")
       ELSE IF ~ex_fs.archive
            THEN ex_Fail("Archive file not found")
            ELSE /\ ex_pc' = "classify"
                 /\ UNCHANGED <<ex_out, ex_exit>>
    /\ UNCHANGED <<ex_config, ex_fs, ex_command, ex_type, ex_spawned>>

\* extract_archive up to the built command (extract.rs:116-164):
\* from_path, the choice of the command, check_command_exists (which runs
\* `which`, extract.rs:107-113), the arguments.
Dispatch ==
    /\ ex_pc = "classify"
    /\ LET t  == from_path(ex_config.archive_path)
           sc == select_command(ex_config, t)
       IN  /\ ex_type' = t
           /\ IF t = "Unknown"
              THEN /\ ex_Fail("Unsupported archive format")
                   /\ UNCHANGED <<ex_command, ex_spawned>>
              ELSE IF sc = NoCommand
              THEN /\ ex_Fail("Internal error: command not found for archive type")
                   /\ UNCHANGED <<ex_command, ex_spawned>>
              ELSE \E exists \in BOOLEAN :
                   /\ ex_spawned' = Append(ex_spawned, [program |-> "which", cwd |-> StartDir])
                   /\ IF ~exists
                      THEN /\ ex_Fail("Required command not found")
                           /\ UNCHANGED ex_command
                      ELSE /\ ex_command' =
                                [program |-> sc.cmd,
                                 args    |-> sc.args \o format_options(sc.cmd, ex_config),
                                 archive |-> ex_config.archive_path,
                                 cwd     |-> StartDir,
                                 status  |-> ""]
                           /\ ex_pc' = "prepare"
                           /\ UNCHANGED <<ex_out, ex_exit>>
    /\ UNCHANGED <<ex_config, ex_fs>>

\* The destination directory (extract.rs:166-174).
PrepareDestination ==
    /\ ex_pc = "prepare"
    /\ IF ~ex_config.list_only /\ ex_config.destination # NoDest
       THEN \E created \in BOOLEAN :
            IF created
            THEN /\ ex_fs' = [ex_fs EXCEPT !.created =
                                  @ \cup {ResolveDir(ex_config.destination, StartDir)}]
                 /\ ex_command' = [ex_command EXCEPT !.cwd =
                                       ResolveDir(ex_config.destination, StartDir)]
                 /\ ex_pc' = "spawn"
                 /\ UNCHANGED <<ex_out, ex_exit>>
            ELSE /\ ex_Fail("Failed to create destination directory")
                 /\ UNCHANGED <<ex_fs, ex_command>>
       ELSE /\ ex_pc' = "spawn"
            /\ UNCHANGED <<ex_fs, ex_command, ex_out, ex_exit>>
    /\ UNCHANGED <<ex_config, ex_type, ex_spawned>>

\* command.output() and the test of its status (extract.rs:176-187).
RunTool ==
    /\ ex_pc = "spawn"
    /\ \E status \in {"spawn_error", "exit_nonzero", "exit_zero"} :
        /\ ex_command' = [ex_command EXCEPT !.status = status]
        /\ ex_spawned' = IF status = "spawn_error" THEN ex_spawned
                         ELSE Append(ex_spawned, [program |-> ex_command.program,
                                                  cwd     |-> ex_command.cwd])
        /\ CASE status = "spawn_error"  -> ex_Fail("Failed to execute command")
             [] status = "exit_nonzero" -> ex_Fail("Extraction failed")
             [] OTHER ->
                  /\ ex_out' = IF ex_config.quiet THEN ex_out
                               ELSE Append(ex_out, "<stdout of the tool>")
                  /\ ex_pc' = "cleanup"
                  /\ UNCHANGED ex_exit
    /\ UNCHANGED <<ex_config, ex_fs, ex_type>>

\* The removal of the archive (extract.rs:189-195) and the end of main
\* (extract.rs:256-266).
Cleanup ==
    /\ ex_pc = "cleanup"
    /\ IF should_remove(ex_config)
       THEN \E removed \in BOOLEAN :
            IF removed
            THEN /\ ex_fs' = [ex_fs EXCEPT !.archive = FALSE, !.remove = "ok"]
                 /\ ex_out' = IF ~ex_config.quiet /\ ~ex_config.list_only
                              THEN Append(ex_out, "Extraction completed successfully.")
                              ELSE ex_out
                 /\ ex_exit' = 0
                 /\ ex_pc' = "exit"
            ELSE /\ ex_fs' = [ex_fs EXCEPT !.remove = "failed"]
                 /\ ex_Fail("Failed to remove archive")
       ELSE /\ ex_out' = IF ~ex_config.quiet /\ ~ex_config.list_only
                         THEN Append(ex_out, "Extraction completed successfully.")
                         ELSE ex_out
            /\ ex_exit' = 0
            /\ ex_pc' = "exit"
            /\ UNCHANGED ex_fs
    /\ UNCHANGED <<ex_config, ex_command, ex_type, ex_spawned>>

(***************************************************************************)
(*                               killport                                  *)
(***************************************************************************)

\* Bounds of the killport model.
MaxArgs == 2
MaxLines == 1

kp_Idle ==
    /\ kp_pc = "idle" /\ kp_args = <<>> /\ kp_i = 0 /\ kp_config = <<>>
    /\ kp_found = {} /\ kp_spawned = <<>> /\ kp_signals = <<>>
    /\ kp_out = <<>> /\ kp_exit = -1 /\ kp_root = FALSE

\* ---- texts ----
\* A text is the sequence of its characters.
DigitChars == <<"0", "1", "2", "3", "4", "5", "6", "7", "8", "9">>

\* format!("{}", n) for an unsigned n.
RECURSIVE to_string(_)
to_string(n) ==
    IF n < 10 THEN <<DigitChars[n + 1]>>
    ELSE to_string(n \div 10) \o <<DigitChars[(n % 10) + 1]>>

DigitValue(c) == CHOOSE d \in 0..9 : DigitChars[d + 1] = c

IsDigits(s) == s # <<>> /\ \A k \in 1..Len(s) : \E d \in 0..9 : DigitChars[d + 1] = s[k]

RECURSIVE DecimalValue(_)
DecimalValue(s) ==
    IF s = <<>> THEN 0
    ELSE DecimalValue(SubSeq(s, 1, Len(s) - 1)) * 10 + DigitValue(s[Len(s)])

\* str::parse::<u16>() (killport.rs:146): the value, or -1 for Err.  Texts
\* of more than five digits are out of range whatever their value.
parse_u16(s) ==
    IF IsDigits(s) /\ Len(s) <= 5 /\ DecimalValue(s) <= 65535 THEN DecimalValue(s) ELSE -1

\* str::parse::<u32>() (killport.rs:64), for texts of at most nine digits.
parse_u32(s) == IF IsDigits(s) /\ Len(s) <= 9 THEN DecimalValue(s) ELSE -1

\* str::contains
contains(s, sub) ==
    \E k \in 1..(Len(s) - Len(sub) + 1) : SubSeq(s, k, k + Len(sub) - 1) = sub

\* str::starts_with
starts_with(s, pre) == Len(s) >= Len(pre) /\ SubSeq(s, 1, Len(pre)) = pre

\* str::split(c), collected: the pieces of s between occurrences of c.
RECURSIVE split(_, _)
split(s, c) ==
    IF \A k \in 1..Len(s) : s[k] # c THEN <<s>>
    ELSE LET k == CHOOSE j \in 1..Len(s) :
                      s[j] = c /\ \A m \in 1..(j - 1) : s[m] # c
         IN  <<SubSeq(s, 1, k - 1)>> \o split(SubSeq(s, k + 1, Len(s)), c)

\* ---- the output of `ss -tupln` ----
\* A socket line is described by its layout, the local port of the socket and
\* the pid in its process column (0: no process column).  With the Netid
\* column the fields are Netid State Recv-Q Send-Q Local Peer [Process];
\* without it they are State Recv-Q Send-Q Local Peer [Process].
SocketLines ==
    [layout : {"netid", "plain"}, local_port : {80, 8080}, pid : {0, 7}]

HeaderLine == [layout |-> "header", local_port |-> 0, pid |-> 0]

\* The process column: users:(("srv",pid=<pid>,fd=3))
ProcessColumn(pid) ==
    <<"u", ":", "(", "(", "s", ",", "p", "i", "d", "=">> \o to_string(pid)
        \o <<",", "f", "d", "=", "3", ")", ")">>

\* line.split_whitespace().collect()   (killport.rs:55)
fields_of(line) ==
    IF line.layout = "header"
    THEN <<<<"N">>, <<"S">>, <<"R">>, <<"S">>, <<"L">>, <<"A">>, <<"P">>, <<"A">>, <<"P">>>>
    ELSE (IF line.layout = "netid" THEN <<<<"t", "c", "p">>>> ELSE <<>>)
         \o <<<<"L", "I", "S", "T", "E", "N">>, <<"0">>, <<"1", "2", "8">>,
              <<"0", ".", "0", ".", "0", ".", "0", ":">> \o to_string(line.local_port),
              <<"0", ".", "0", ".", "0", ".", "0", ":", "*">>>>
         \o (IF line.pid = 0 THEN <<>> ELSE <<ProcessColumn(line.pid)>>)

\* What one run of ss prints: the header and up to MaxLines socket lines;
\* the empty output stands for an ss that could not be run.
SsOutputs ==
    {<<>>} \cup
    {<<HeaderLine>> \o ls : ls \in UNION {[1..n -> SocketLines] : n \in 0..MaxLines}}

\* fields.len() >= 6 && fields[3].contains(&format!(":{}", port))
\* (killport.rs:56-58); fields[3] is the fourth field.
line_matches(fields, port) ==
    /\ Len(fields) >= 6
    /\ contains(fields[4], <<":">> \o to_string(port))

\* The pid taken from the last field (killport.rs:60-64): the first
\* comma-separated piece starting with "pid=", what follows its first '=',
\* parsed as u32; -1 when any step gives None / Err.
pid_of(fields) ==
    LET pieces == split(fields[Len(fields)], ",")
        hits   == SelectSeq(pieces, LAMBDA x : starts_with(x, <<"p", "i", "d", "=">>))
    IN  IF hits = <<>> THEN -1
        ELSE LET parts == split(hits[1], "=")
             IN  IF Len(parts) < 2 THEN -1 ELSE parse_u32(parts[2])

\* ProcessInfo (killport.rs:36-42); `line` remembers the socket line the
\* entry was taken from.
ProcessInfo(pid, fields, line) ==
    [pid |-> pid, protocol |-> fields[1], state |-> fields[2], line |-> line]

\* get_processes_by_port (killport.rs:44-91) on the ss output `output`;
\* ps_ok holds the pids for which ps prints at least two fields.
get_processes_by_port(port, output, ps_ok) ==
    LET lines == IF output = <<>> THEN <<>> ELSE Tail(output)
        hits  == SelectSeq(lines, LAMBDA l :
                     /\ line_matches(fields_of(l), port)
                     /\ pid_of(fields_of(l)) >= 0
                     /\ pid_of(fields_of(l)) \in ps_ok)
    IN  [k \in 1..Len(hits) |->
            ProcessInfo(pid_of(fields_of(hits[k])), fields_of(hits[k]), hits[k])]

\* The ps runs get_processes_by_port makes: one per matching line with a pid.
ps_runs(port, output) ==
    LET lines == IF output = <<>> THEN <<>> ELSE Tail(output)
        hits  == SelectSeq(lines, LAMBDA l :
                     /\ line_matches(fields_of(l), port)
                     /\ pid_of(fields_of(l)) >= 0)
    IN  [k \in 1..Len(hits) |-> "ps"]

\* ---- the command line ----
ArgTexts ==
    {<<"-", "l">>, <<"-", "f">>, <<"-", "q">>, <<"-", "h">>,
     <<"8", "0">>, <<"8", "0", "8", "0">>, <<"7", "0", "0", "0", "0">>}

kp_Init ==
    /\ kp_pc = "parse"
    /\ kp_args \in UNION {[1..n -> ArgTexts] : n \in 0..MaxArgs}
    /\ kp_i = 1
    /\ kp_config = [ports |-> <<>>, force |-> FALSE, list_only |-> FALSE,
                    verbose |-> FALSE, quiet |-> FALSE]
    /\ kp_found = {}
    /\ kp_spawned = <<>>
    /\ kp_signals = <<>>
    /\ kp_out = <<>>
    /\ kp_exit = -1
    /\ kp_root \in BOOLEAN

kp_Exit(status, message) ==
    /\ kp_out' = Append(kp_out, message)
    /\ kp_exit' = status
    /\ kp_pc' = "exit"

\* One iteration of the argument loop of main (killport.rs:127-155).
ParseArg ==
    /\ kp_pc = "parse"
    /\ kp_i <= Len(kp_args)
    /\ LET a == kp_args[kp_i]
       IN  CASE a \in {<<"-", "h">>, <<"-", "-", "h", "e", "l", "p">>} ->
                    /\ kp_Exit(0, "HELP")
                    /\ UNCHANGED <<kp_i, kp_config>>
             [] a \in {<<"-", "f">>, <<"-", "-", "f", "o", "r", "c", "e">>} ->
                    /\ kp_config' = [kp_config EXCEPT !.force = TRUE]
                    /\ kp_i' = kp_i + 1
                    /\ UNCHANGED <<kp_pc, kp_out, kp_exit>>
             [] a \in {<<"-", "l">>, <<"-", "-", "l", "i", "s", "t">>} ->
                    /\ kp_config' = [kp_config EXCEPT !.list_only = TRUE]
                    /\ kp_i' = kp_i + 1
                    /\ UNCHANGED <<kp_pc, kp_out, kp_exit>>
             [] a \in {<<"-", "v">>, <<"-", "-", "v", "e", "r", "b", "o", "s", "e">>} ->
                    /\ kp_config' = [kp_config EXCEPT !.verbose = TRUE]
                    /\ kp_i' = kp_i + 1
                    /\ UNCHANGED <<kp_pc, kp_out, kp_exit>>
             [] a \in {<<"-", "q">>, <<"-", "-", "q", "u", "i", "e", "t">>} ->
                    /\ kp_config' = [kp_config EXCEPT !.quiet = TRUE]
                    /\ kp_i' = kp_i + 1
                    /\ UNCHANGED <<kp_pc, kp_out, kp_exit>>
             [] OTHER ->
                    IF parse_u16(a) >= 0
                    THEN /\ kp_config' = [kp_config EXCEPT !.ports = Append(@, parse_u16(a))]
                         /\ kp_i' = kp_i + 1
                         /\ UNCHANGED <<kp_pc, kp_out, kp_exit>>
                    ELSE /\ kp_Exit(1, "Error: Invalid port number")
                         /\ UNCHANGED <<kp_i, kp_config>>
    /\ UNCHANGED <<kp_args, kp_found, kp_spawned, kp_signals, kp_root>>

\* A mutation of root_required: root is asked for only when every port is
\* below 1024.
root_required_all(config, is_root) ==
    /\ \A k \in 1..Len(config.ports) : config.ports[k] < 1024
    /\ ~is_root
    /\ ~config.list_only

\* needs_root && !is_root && !config.list_only   (killport.rs:170-171)
root_required(config, is_root) ==
    /\ \E k \in 1..Len(config.ports) : config.ports[k] < 1024
    /\ ~is_root
    /\ ~config.list_only

\* main between the argument loop and the lookups (killport.rs:157-177):
\* the ports must not be empty; is_root is true when `id -u` could be run and
\* printed 0, false otherwise.
RootCheck ==
    /\ kp_pc = "parse"
    /\ kp_i > Len(kp_args)
    /\ IF kp_config.ports = <<>>
       THEN /\ kp_Exit(1, "Error: No ports specified")
            /\ UNCHANGED <<kp_i, kp_spawned>>
       ELSE \E id_ran \in BOOLEAN :
            LET is_root == id_ran /\ kp_root IN
            /\ kp_spawned' = Append(kp_spawned, "id")
            /\ IF root_required(kp_config, is_root)
               THEN /\ kp_Exit(1, "Error: Root privileges required for ports below 1024")
                    /\ UNCHANGED kp_i
               ELSE /\ kp_pc' = "collect"
                    /\ kp_i' = 1
                    /\ UNCHANGED <<kp_out, kp_exit>>
    /\ UNCHANGED <<kp_args, kp_config, kp_found, kp_signals, kp_root>>

\* port_processes.insert(port, processes)
insert(map, port, processes) ==
    {e \in map : e.port # port} \cup {[port |-> port, processes |-> processes]}

\* One iteration of the lookup loop (killport.rs:180-186).
Collect ==
    /\ kp_pc = "collect"
    /\ kp_i <= Len(kp_config.ports)
    /\ \E output \in SsOutputs, ps_ok \in SUBSET {7} :
        LET port      == kp_config.ports[kp_i]
            processes == get_processes_by_port(port, output, ps_ok)
        IN  /\ kp_spawned' = kp_spawned \o <<"ss">> \o ps_runs(port, output)
            /\ kp_found' = IF processes # <<>> THEN insert(kp_found, port, processes)
                           ELSE kp_found
    /\ kp_i' = kp_i + 1
    /\ UNCHANGED <<kp_pc, kp_args, kp_config, kp_signals, kp_out, kp_exit, kp_root>>

\* if !found { ...; exit(0) }   (killport.rs:188-193)
AfterCollect ==
    /\ kp_pc = "collect"
    /\ kp_i > Len(kp_config.ports)
    /\ IF kp_found = {}
       THEN /\ kp_out' = IF kp_config.quiet THEN kp_out
                         ELSE Append(kp_out, "No processes found for specified ports")
            /\ kp_exit' = 0
            /\ kp_pc' = "exit"
       ELSE /\ kp_pc' = "kill"
            /\ UNCHANGED <<kp_out, kp_exit>>
    /\ UNCHANGED <<kp_args, kp_i, kp_config, kp_found, kp_spawned, kp_signals, kp_root>>

\* kill_process (killport.rs:93-100): the kill run for one process.
kill_process(port, proc, force) ==
    [port |-> port, pid |-> proc.pid, line |-> proc.line,
     signal |-> IF force THEN "-9" ELSE "-15"]

\* A mutation of kills_for: the list flag is not looked at.
kills_for_nolist(config, entry) ==
    [k \in 1..Len(entry.processes) |->
        kill_process(entry.port, entry.processes[k], config.force)]

\* The kill_process calls the inner loop makes for one entry of
\* port_processes (killport.rs:197-213).
kills_for(config, entry) ==
    IF config.list_only THEN <<>>
    ELSE [k \in 1..Len(entry.processes) |->
             kill_process(entry.port, entry.processes[k], config.force)]

\* One iteration of the outer loop over port_processes (killport.rs:196-214);
\* a HashMap is iterated in an unspecified order.  After the last entry main
\* returns.
KillEntry ==
    /\ kp_pc = "kill"
    /\ \E entry \in kp_found :
        LET kills == kills_for(kp_config, entry)
        IN  /\ kp_signals' = kp_signals \o kills
            /\ kp_spawned' = kp_spawned \o [k \in 1..Len(kills) |-> "kill"]
            /\ kp_found' = kp_found \ {entry}
            /\ kp_out' = IF kp_config.quiet THEN kp_out
                         ELSE kp_out \o [k \in 1..Len(entry.processes) |-> "Port: process info"]
            /\ IF kp_found = {entry}
               THEN kp_pc' = "exit" /\ kp_exit' = 0
               ELSE UNCHANGED <<kp_pc, kp_exit>>
    /\ UNCHANGED <<kp_args, kp_i, kp_config, kp_root>>

(***************************************************************************)
(*                                ftree                                    *)
(***************************************************************************)

\* Bounds of the ftree model: the largest N given to -L and the depth of the
\* deepest entry of a tree.
MaxLevel == 2
MaxTreeDepth == 3

ft_Idle ==
    /\ ft_pc = "idle" /\ ft_args = <<>> /\ ft_fs = <<>> /\ ft_config = <<>>
    /\ ft_stack = <<>> /\ ft_out = <<>> /\ ft_stats = <<>>
    /\ ft_summary = <<>> /\ ft_exit = -1

\* ---- the directory tree ----
\* A path is the sequence of the entry names from the root down; the root is
\* <<>>, at depth 0.  A name is a text.
NameA == <<"a">>
NameB == <<"b">>
NameHidden == <<".", "c">>

\* Byte order of the names, as OsString compares them (ftree.rs:161).
NameRank(name) == CASE name = NameHidden -> 1 [] name = NameA -> 2 [] name = NameB -> 3

\* The paths a tree may have: a chain of entries named a, each with a sibling
\* named b, and a hidden entry directly under the root.
TreePaths ==
    {p \in UNION {[1..n -> {NameA, NameB}] : n \in 1..MaxTreeDepth} :
        \A k \in 1..(Len(p) - 1) : p[k] = NameA}
    \cup {<<NameHidden>>}

\* Kinds of entry: a regular file, a directory, a symbolic link whose target
\* is missing (fs::metadata fails on it), or no entry at all.
ParentOf(p) == SubSeq(p, 1, Len(p) - 1)

Trees ==
    {f \in [TreePaths \cup {<<>>} -> {"file", "dir", "broken", "none"}] :
        /\ f[<<>>] = "dir"
        /\ f[<<NameHidden>>] \in {"file", "none"}
        /\ \A p \in TreePaths :
            /\ f[p] # "none" => f[ParentOf(p)] = "dir"
            /\ p[Len(p)] = NameB => f[p] # "dir"}

\* ---- the command line ----
NoDepth == -1
NoPattern == <<>>

\* str::parse::<usize>() (ftree.rs:213), for texts of at most nine digits;
\* -1 for Err.
parse_usize(s) == IF IsDigits(s) /\ Len(s) <= 9 THEN DecimalValue(s) ELSE -1

\* args[i].parse().unwrap_or(0)   (ftree.rs:213)
parse_level(s) == IF parse_usize(s) >= 0 THEN parse_usize(s) ELSE 0

LevelTexts == {to_string(n) : n \in 0..MaxLevel} \cup {<<"x">>, <<"-", "1">>}

OptL == <<"-", "L">>
OptH == <<"-", "h">>
OptD == <<"-", "d">>
OptI == <<"-", "i">>

\* The command lines examined.
ft_CommandLines ==
    {<<>>, <<OptL>>, <<OptH>>, <<OptI, NameB, OptL, to_string(1)>>}
    \cup {<<OptL, n>> : n \in LevelTexts}
    \cup {<<OptH, OptL, n>> : n \in LevelTexts}
    \cup {<<OptL, n, OptD>> : n \in LevelTexts}

ft_DefaultConfig ==
    [root |-> <<".">>, max_depth |-> NoDepth, show_size |-> FALSE,
     show_hidden |-> FALSE, dirs_only |-> FALSE, pattern |-> NoPattern,
     ignore |-> NoPattern, help |-> FALSE]

\* The argument loop of main (ftree.rs:203-244), from index i on.
RECURSIVE ft_parse_args(_, _, _)
ft_parse_args(args, i, config) ==
    IF i > Len(args) THEN config
    ELSE LET a == args[i] IN
         CASE a = <<"-", "-", "h", "e", "l", "p">> -> [config EXCEPT !.help = TRUE]
           [] a \in {OptL, <<"-", "-", "l", "e", "v", "e", "l">>} ->
                IF i + 1 <= Len(args)
                THEN ft_parse_args(args, i + 2,
                         [config EXCEPT !.max_depth = parse_level(args[i + 1])])
                ELSE ft_parse_args(args, i + 2, config)
           [] a \in {<<"-", "s">>, <<"-", "-", "s", "i", "z", "e">>} ->
                ft_parse_args(args, i + 1, [config EXCEPT !.show_size = TRUE])
           [] a \in {OptH, <<"-", "-", "h", "i", "d", "d", "e", "n">>} ->
                ft_parse_args(args, i + 1, [config EXCEPT !.show_hidden = TRUE])
           [] a \in {OptD, <<"-", "-", "d", "i", "r", "s", "-", "o", "n", "l", "y">>} ->
                ft_parse_args(args, i + 1, [config EXCEPT !.dirs_only = TRUE])
           [] a \in {<<"-", "p">>, <<"-", "-", "p", "a", "t", "t", "e", "r", "n">>} ->
                IF i + 1 <= Len(args)
                THEN ft_parse_args(args, i + 2, [config EXCEPT !.pattern = args[i + 1]])
                ELSE ft_parse_args(args, i + 2, config)
           [] a \in {OptI, <<"-", "-", "i", "g", "n", "o", "r", "e">>} ->
                IF i + 1 <= Len(args)
                THEN ft_parse_args(args, i + 2, [config EXCEPT !.ignore = args[i + 1]])
                ELSE ft_parse_args(args, i + 2, config)
           [] OTHER ->
                IF starts_with(a, <<"-">>) THEN ft_parse_args(args, i + 1, config)
                ELSE ft_parse_args(args, i + 1, [config EXCEPT !.root = a])

\* str::ends_with
ends_with(s, suf) == Len(s) >= Len(suf) /\ SubSeq(s, Len(s) - Len(suf) + 1, Len(s)) = suf

\* matches_pattern (ftree.rs:73-79)
matches_pattern(name, pattern) ==
    IF starts_with(pattern, <<"*", ".">>) THEN ends_with(name, Tail(pattern))
    ELSE contains(name, pattern)

\* should_process_file (ftree.rs:81-114)
should_process_file(name, config, is_dir) ==
    /\ ~(~config.show_hidden /\ starts_with(name, <<".">>))
    /\ ~(config.dirs_only /\ ~is_dir)
    /\ ~(config.pattern # NoPattern /\ ~is_dir /\ ~matches_pattern(name, config.pattern))
    /\ ~(config.ignore # NoPattern /\ matches_pattern(name, config.ignore))

\* The entries of directory `path` that pass should_process_file, sorted by
\* (is_file, file_name)   (ftree.rs:156-161).
RECURSIVE SortByKey(_, _)
SortByKey(fs, paths) ==
    IF paths = {} THEN <<>>
    ELSE LET Key(p) == (IF fs[p] = "file" THEN 10 ELSE 0) + NameRank(p[Len(p)])
             first  == CHOOSE p \in paths : \A q \in paths : Key(p) <= Key(q)
         IN  <<first>> \o SortByKey(fs, paths \ {first})

entries_of(fs, path, config) ==
    SortByKey(fs, {p \in TreePaths :
                      /\ Len(p) = Len(path) + 1 /\ ParentOf(p) = path
                      /\ fs[p] # "none"
                      /\ should_process_file(p[Len(p)], config, fs[p] = "dir")})

ft_Init ==
    /\ ft_pc = "main"
    /\ ft_args \in ft_CommandLines
    /\ ft_fs \in Trees
    /\ ft_config = ft_DefaultConfig
    /\ ft_stack = <<>>
    /\ ft_out = <<>>
    /\ ft_stats = [total_dirs |-> 0, total_files |-> 0]
    /\ ft_summary = <<>>
    /\ ft_exit = -1

\* main up to the first print_tree call (ftree.rs:191-263): the arguments are
\* parsed, the root (which exists) is printed and print_tree is called on it
\* with depth 0.
Main ==
    /\ ft_pc = "main"
    /\ ft_config' = ft_parse_args(ft_args, 1, ft_config)
    /\ IF ft_config'.help
       THEN ft_pc' = "exit" /\ ft_exit' = 0 /\ UNCHANGED ft_stack
       ELSE /\ ft_pc' = "walk"
            /\ ft_stack' = <<[path |-> <<>>, depth |-> 0, is_root |-> TRUE]>>
            /\ UNCHANGED ft_exit
    /\ UNCHANGED <<ft_args, ft_fs, ft_out, ft_stats, ft_summary>>

\* if let Some(max_depth) = config.max_depth { if depth > max_depth ...
\* (ftree.rs:125-129)
beyond_depth(depth, config) ==
    config.max_depth # NoDepth /\ depth > config.max_depth

\* One call of print_tree (ftree.rs:116-189) up to its recursive calls, which
\* are put in front of the calls still to be made.  An Err of fs::metadata is
\* passed up by every `?` to main, which ends with status 1.
PrintTree ==
    /\ ft_pc = "walk"
    /\ ft_stack # <<>>
    /\ LET call == Head(ft_stack)
           kind == ft_fs[call.path]
       IN  IF beyond_depth(call.depth, ft_config)
           THEN /\ ft_stack' = Tail(ft_stack)
                /\ UNCHANGED <<ft_pc, ft_out, ft_stats, ft_exit>>
           ELSE IF kind = "broken"
           THEN /\ ft_pc' = "exit"
                /\ ft_exit' = 1
                /\ UNCHANGED <<ft_stack, ft_out, ft_stats>>
           ELSE /\ ft_out' = IF call.is_root THEN ft_out ELSE Append(ft_out, call.path)
                /\ IF kind = "dir"
                   THEN LET entries == entries_of(ft_fs, call.path, ft_config)
                        IN  /\ ft_stats' = IF call.is_root THEN ft_stats
                                           ELSE [ft_stats EXCEPT !.total_dirs = @ + 1]
                            /\ ft_stack' =
                                   [k \in 1..Len(entries) |->
                                       [path |-> entries[k], depth |-> call.depth + 1,
                                        is_root |-> FALSE]]
                                   \o Tail(ft_stack)
                   ELSE /\ ft_stats' = [ft_stats EXCEPT !.total_files = @ + 1]
                        /\ ft_stack' = Tail(ft_stack)
                /\ UNCHANGED <<ft_pc, ft_exit>>
    /\ UNCHANGED <<ft_args, ft_fs, ft_config, ft_summary>>

\* print_tree returned Ok to main: the summary is printed (ftree.rs:265-272).
Summary ==
    /\ ft_pc = "walk"
    /\ ft_stack = <<>>
    /\ ft_summary' = <<ft_stats>>
    /\ ft_pc' = "done"
    /\ ft_exit' = 0
    /\ UNCHANGED <<ft_args, ft_fs, ft_config, ft_stack, ft_out, ft_stats>>

(***************************************************************************)
(*                            specifications                               *)
(***************************************************************************)

InitDate == dd_Init /\ es_Idle /\ ex_Idle /\ kp_Idle /\ ft_Idle

NextDate ==
    \/ ToSeconds /\ UNCHANGED <<es_vars, ex_vars, kp_vars, ft_vars>>
    \/ Now /\ UNCHANGED <<es_vars, ex_vars, kp_vars, ft_vars>>
    \/ DecodeEncoded /\ UNCHANGED <<es_vars, ex_vars, kp_vars, ft_vars>>

SpecDate == InitDate /\ [][NextDate]_vars

InitEstimate == dd_Idle /\ es_Init /\ ex_Idle /\ kp_Idle /\ ft_Idle

NextEstimate ==
    \/ RunCommandOk /\ UNCHANGED <<dd_vars, ex_vars, kp_vars, ft_vars>>
    \/ RunCommandErr /\ UNCHANGED <<dd_vars, ex_vars, kp_vars, ft_vars>>
    \/ PrintResults /\ UNCHANGED <<dd_vars, ex_vars, kp_vars, ft_vars>>

SpecEstimate == InitEstimate /\ [][NextEstimate]_vars

InitExtract == dd_Idle /\ es_Idle /\ ex_Init /\ kp_Idle /\ ft_Idle

NextExtract ==
    \/ MainChecks /\ UNCHANGED <<dd_vars, es_vars, kp_vars, ft_vars>>
    \/ Dispatch /\ UNCHANGED <<dd_vars, es_vars, kp_vars, ft_vars>>
    \/ PrepareDestination /\ UNCHANGED <<dd_vars, es_vars, kp_vars, ft_vars>>
    \/ RunTool /\ UNCHANGED <<dd_vars, es_vars, kp_vars, ft_vars>>
    \/ Cleanup /\ UNCHANGED <<dd_vars, es_vars, kp_vars, ft_vars>>

SpecExtract == InitExtract /\ [][NextExtract]_vars

InitKillport == dd_Idle /\ es_Idle /\ ex_Idle /\ kp_Init /\ ft_Idle

NextKillport ==
    \/ ParseArg /\ UNCHANGED <<dd_vars, es_vars, ex_vars, ft_vars>>
    \/ RootCheck /\ UNCHANGED <<dd_vars, es_vars, ex_vars, ft_vars>>
    \/ Collect /\ UNCHANGED <<dd_vars, es_vars, ex_vars, ft_vars>>
    \/ AfterCollect /\ UNCHANGED <<dd_vars, es_vars, ex_vars, ft_vars>>
    \/ KillEntry /\ UNCHANGED <<dd_vars, es_vars, ex_vars, ft_vars>>

SpecKillport == InitKillport /\ [][NextKillport]_vars

InitFtree == dd_Idle /\ es_Idle /\ ex_Idle /\ kp_Idle /\ ft_Init

NextFtree ==
    \/ Main /\ UNCHANGED <<dd_vars, es_vars, ex_vars, kp_vars>>
    \/ PrintTree /\ UNCHANGED <<dd_vars, es_vars, ex_vars, kp_vars>>
    \/ Summary /\ UNCHANGED <<dd_vars, es_vars, ex_vars, kp_vars>>

SpecFtree == InitFtree /\ [][NextFtree]_vars

(***************************************************************************)
(*                         datediff: properties                            *)
(***************************************************************************)

\* C1: for every valid Gregorian date-time from 1970 on, date_to_seconds
\* returns the number of seconds elapsed since 1970-01-01 00:00:00, that is
\* (true days since the epoch) * 86400 + hour * 3600 + minute * 60 + second.
C1_EncodeIsEpochSeconds ==
    dd_pc \in {"encoded", "roundtrip"} => dd_secs = TrueSeconds(dd_date)

\* C2: decoding what date_to_seconds returned for a valid date-time gives
\* back exactly the fields of that date-time.
C2_RoundTrip ==
    dd_pc = "roundtrip" => dd_out = dd_date

\* C3: for every secs >= 0, seconds_to_date(secs) is the Gregorian date-time
\* lying exactly secs seconds after the epoch: every field is in range (the
\* day within the length of that month of that year) and the date-time is
\* secs seconds after 1970-01-01 00:00:00.
C3_DecodeIsGregorian ==
    dd_pc = "decoded" =>
        /\ IsValidDateTime(dd_out)
        /\ TrueSeconds(dd_out) = dd_secs

\* C3 witness: day 366 of a leap year was decoded, to December 31 of it.
C3_Witness ==
    /\ dd_pc = "decoded"
    /\ IsLeapYear(dd_out.year)
    /\ (dd_secs \div 86400) - DaysBeforeYear(dd_out.year) = 365
    /\ dd_out.month = 12
    /\ dd_out.day = 31

\* C4: the leap-year correction date_to_seconds adds for a date in year Y is
\* the number of February-29 days between 1970-01-01 and that date.
C4_LeapCorrection ==
    dd_pc = "encoded" =>
        leap_correction(dd_date.year, dd_date.month)
            = LeapDaysBefore(dd_date.year, dd_date.month)

(***************************************************************************)
(*                         estimate: properties                            *)
(***************************************************************************)

AllSpawned == \A k \in 1..Len(es_runs) : es_runs[k].spawned

\* The executions after the first `warmup` ones.
MeasuredRuns == SubSeq(es_runs, es_config.warmup + 1, Len(es_runs))

RECURSIVE SumDurations(_)
SumDurations(runs) ==
    IF runs = <<>> THEN 0 ELSE runs[1].duration + SumDurations(Tail(runs))

\* C5: while every spawn succeeds, the statistics hold exactly the executions
\* after the first `warmup` ones, each once and in order (warmup executions
\* are in none of times, total_time, success_count, fail_count); when the
\* results are printed the command has run warmup + iterations times and the
\* statistics hold exactly `iterations` samples.
C5_WarmupDiscarded ==
    (es_pc # "idle" /\ AllSpawned) =>
        /\ es_stats.times = [k \in 1..Len(MeasuredRuns) |-> MeasuredRuns[k].duration]
        /\ es_stats.total_time = SumDurations(MeasuredRuns)
        /\ es_stats.success_count
               = Cardinality({k \in 1..Len(MeasuredRuns) : MeasuredRuns[k].success})
        /\ es_stats.fail_count
               = Cardinality({k \in 1..Len(MeasuredRuns) : ~MeasuredRuns[k].success})
        /\ Len(es_runs) = es_i
        /\ es_pc = "printed" =>
               /\ Len(es_runs) = es_config.warmup + es_config.iterations
               /\ Len(es_stats.times) = es_config.iterations
               /\ es_stats.success_count + es_stats.fail_count = es_config.iterations
               /\ es_printed[1].iterations = es_config.iterations

\* C5 witness: results printed after warmup runs whose outcome differs from
\* that of the measured runs.
C5_Witness ==
    /\ es_pc = "printed"
    /\ es_config.warmup = 2
    /\ es_config.iterations = 2
    /\ es_runs[1].duration # es_runs[3].duration
    /\ ~es_runs[2].success
    /\ es_stats.fail_count = 0

(***************************************************************************)
(*                          extract: properties                            *)
(***************************************************************************)

\* The name the user gave, as (lower-cased) parts between dots.
ArchiveName == ex_config.archive_path.name

\* The file name ends in ".<e>", case-insensitively.
NameEndsIn1(name, e) ==
    Len(name) >= 2 /\ to_lowercase_part(name[Len(name)]) = e

\* The file name ends in ".<e1>.<e2>", case-insensitively.
NameEndsIn2(name, e1, e2) ==
    /\ Len(name) >= 3
    /\ to_lowercase_part(name[Len(name) - 1]) = e1
    /\ to_lowercase_part(name[Len(name)]) = e2

\* The base flags with which the tool was (or is about to be) started.
BaseArgsAre(extract_args, list_args) ==
    ex_command.program # "" =>
        /\ ex_command.program = "tar"
        /\ ex_command.args = IF ex_config.list_only THEN list_args ELSE extract_args

Range(seq) == {seq[k] : k \in 1..Len(seq)}

\* C6: once the archive is classified, a name ending in .tar.gz / .tar.bz2 /
\* .tar.xz / .tar.zst (any case) has the matching compressed-tar type and is
\* run with that type's tar flags, a name ending in plain .tar is Tar
\* (-xf / -tf), and a name ending in .gz without .tar before it is Unknown
\* and ends in "Unsupported archive format" with no external command run.
C6_CompoundExtensionDispatch ==
    ex_type # "" =>
        /\ NameEndsIn2(ArchiveName, "tar", "gz") =>
               ex_type = "TarGz" /\ BaseArgsAre(<<"-xzf">>, <<"-tzf">>)
        /\ NameEndsIn2(ArchiveName, "tar", "bz2") =>
               ex_type = "TarBz2" /\ BaseArgsAre(<<"-xjf">>, <<"-tjf">>)
        /\ NameEndsIn2(ArchiveName, "tar", "xz") =>
               ex_type = "TarXz" /\ BaseArgsAre(<<"-xJf">>, <<"-tJf">>)
        /\ NameEndsIn2(ArchiveName, "tar", "zst") =>
               ex_type = "TarZst" /\ BaseArgsAre(<<"--zstd", "-xf">>, <<"--zstd", "-tf">>)
        /\ NameEndsIn1(ArchiveName, "tar") =>
               ex_type = "Tar" /\ BaseArgsAre(<<"-xf">>, <<"-tf">>)
        /\ (NameEndsIn1(ArchiveName, "gz") /\ ~NameEndsIn2(ArchiveName, "tar", "gz")) =>
               /\ ex_type = "Unknown"
               /\ ex_out = <<"Unsupported archive format">>
               /\ ex_spawned = <<>>
               /\ ex_exit = 1

\* The formats the help text lists as supported (extract.rs:19-21).
ListedFormats ==
    {<<"zip">>, <<"tar">>, <<"tar", "gz">>, <<"tgz">>, <<"tar", "bz2">>, <<"tbz2">>,
     <<"tar", "xz">>, <<"txz">>, <<"tar", "zst">>, <<"7z">>, <<"rar">>}

\* An ordinary file of a listed format: a non-empty first part, valid
\* UTF-8, and the format's suffix in any case.
IsOfListedFormat(name) ==
    /\ is_utf8(name)
    /\ name[1] # ""
    /\ \E f \in ListedFormats :
        /\ Len(name) > Len(f)
        /\ to_lowercase(SubSeq(name, Len(name) - Len(f) + 1, Len(name))) = f

ArchiveDeleted == ex_type # "" /\ ~ex_fs.archive

\* Not list mode, no --keep, and the tool was found, ran and exited with
\* success.
ExtractionSucceeded ==
    /\ ~ex_config.list_only
    /\ ~ex_config.keep
    /\ ex_command.status = "exit_zero"

\* C8 as stated: at exit the archive is deleted if and only if extraction
\* succeeded without --list and --keep; in every failing path the archive is
\* in place and the exit status is 1.
C8_DeletedIffExtracted ==
    ex_pc = "exit" =>
        /\ ArchiveDeleted <=> ExtractionSucceeded
        /\ (ex_type # "" /\ ex_command.status # "exit_zero") =>
               ex_fs.archive /\ ex_exit = 1

\* C8 amended: the removal of the archive is attempted if and only if
\* extraction succeeded without --list and --keep, the archive is deleted if
\* and only if that removal succeeds, and in every failing path, a failed
\* removal included, the archive is in place and the exit status is 1.
C8_RemovalIffExtracted ==
    ex_pc = "exit" =>
        /\ (ex_fs.remove # "") <=> ExtractionSucceeded
        /\ ArchiveDeleted <=> (ExtractionSucceeded /\ ex_fs.remove = "ok")
        /\ (ex_type # "" /\ (ex_command.status # "exit_zero" \/ ex_fs.remove = "failed")) =>
               ex_fs.archive /\ ex_exit = 1
        /\ ex_type = "" => ex_exit = 1

\* C8 witness: an extraction into a destination succeeded and the archive
\* was removed.
C8_Witness ==
    /\ ex_pc = "exit"
    /\ ExtractionSucceeded
    /\ ArchiveDeleted
    /\ ex_exit = 0

\* C9: in list mode the tool is started with the listing command of the
\* archive type and nothing else but `which` is run, no destination
\* directory is created, the tool's working directory is never changed, the
\* archive is never removed (nor is its removal attempted), and "Extraction
\* completed successfully." is never printed.
C9_ListModeFrame ==
    (ex_pc # "idle" /\ ex_config.list_only) =>
        /\ ex_fs.created = {}
        /\ ex_fs.remove = ""
        /\ ex_type # "" => ex_fs.archive
        /\ ex_command.cwd \in {"", StartDir}
        /\ ex_command.program # "" =>
               LET lc == get_list_command(ex_type)
               IN  /\ ex_command.program = lc.cmd
                   /\ SubSeq(ex_command.args, 1, Len(lc.args)) = lc.args
                   /\ SubSeq(ex_command.args, 1, Len(lc.args)) # get_command(ex_type).args
        /\ \A k \in 1..Len(ex_spawned) :
               /\ ex_spawned[k].cwd = StartDir
               /\ ex_spawned[k].program \in {"which", get_list_command(ex_type).cmd}
        /\ "Extraction completed successfully." \notin Range(ex_out)

\* C9 witness: a listing with a destination given and without --keep ran to
\* a successful end.
C9_Witness ==
    /\ ex_pc = "exit"
    /\ ex_config.list_only
    /\ ~ex_config.keep
    /\ ~ex_config.quiet
    /\ ex_config.destination = "/d"
    /\ ex_command.status = "exit_zero"
    /\ ex_exit = 0

\* C10: when a destination is given and the tool was started to extract, its
\* working directory is the destination and the archive path it received
\* designates, from there, the file whose existence main checked.
C10_ArchiveArgumentDesignatesCheckedFile ==
    (ex_command.status \in {"exit_zero", "exit_nonzero"}
        /\ ~ex_config.list_only /\ ex_config.destination # NoDest) =>
        /\ ex_command.cwd = ResolveDir(ex_config.destination, StartDir)
        /\ ResolveFile(ex_command.archive, ex_command.cwd)
               = ResolveFile(ex_config.archive_path, StartDir)

(***************************************************************************)
(*                          killport properties                            *)
(***************************************************************************)

\* C11: for a requested port P a process is selected, and later signalled,
\* only if the socket line it was taken from has local port exactly P.
C11_SelectsExactPort ==
    /\ \A e \in kp_found : \A k \in 1..Len(e.processes) :
           e.processes[k].line.local_port = e.port
    /\ \A k \in 1..Len(kp_signals) :
           kp_signals[k].line.local_port = kp_signals[k].port

\* The text of an external program name occurs in the spawn log.
Spawned(program) == \E k \in 1..Len(kp_spawned) : kp_spawned[k] = program

\* C12: in no execution with list_only set is kill_process called.
C12_ListNeverKills ==
    (kp_pc # "idle" /\ kp_config.list_only) => (kp_signals = <<>> /\ ~Spawned("kill"))

\* The list run of a non-root user that found processes on port 80 and went
\* through the kill loop to the end.
C12_Witness ==
    /\ kp_pc = "exit" /\ kp_exit = 0
    /\ kp_config.list_only /\ ~kp_root
    /\ \E k \in 1..Len(kp_config.ports) : kp_config.ports[k] = 80
    /\ \E k \in 1..Len(kp_out) : kp_out[k] = "Port: process info"

\* ---- the command line as the user wrote it ----
IsHelpArg(a) == a \in {<<"-", "h">>, <<"-", "-", "h", "e", "l", "p">>}

IsListArg(a) == a \in {<<"-", "l">>, <<"-", "-", "l", "i", "s", "t">>}

IsFlagArg(a) ==
    \/ IsHelpArg(a) \/ IsListArg(a)
    \/ a \in {<<"-", "f">>, <<"-", "-", "f", "o", "r", "c", "e">>,
              <<"-", "v">>, <<"-", "-", "v", "e", "r", "b", "o", "s", "e">>,
              <<"-", "q">>, <<"-", "-", "q", "u", "i", "e", "t">>}

\* An argument that is neither a flag nor the decimal text of a u16.
IsInvalidArg(a) == ~IsFlagArg(a) /\ ~(IsDigits(a) /\ Len(a) <= 5 /\ DecimalValue(a) <= 65535)

IsLowPortArg(a) == IsDigits(a) /\ Len(a) <= 5 /\ DecimalValue(a) < 1024

HasInvalidArg == \E k \in 1..Len(kp_args) : IsInvalidArg(kp_args[k])

\* A port below 1024 is requested, --list is not given, the user is not root.
RootMissing ==
    /\ \E k \in 1..Len(kp_args) : IsLowPortArg(kp_args[k])
    /\ \A k \in 1..Len(kp_args) : ~IsListArg(kp_args[k])
    /\ ~kp_root

\* A help flag stands before every invalid argument.
HelpComesFirst ==
    \E k \in 1..Len(kp_args) :
        /\ IsHelpArg(kp_args[k])
        /\ \A j \in 1..(k - 1) : ~IsInvalidArg(kp_args[j])

\* C13 as stated: with a port below 1024, no root and no --list, or with an
\* invalid argument anywhere, the program exits with status 1 and no lookup
\* or kill is made.
C13_ExitsOne ==
    (kp_pc # "idle" /\ (RootMissing \/ HasInvalidArg)) =>
        /\ ~Spawned("ss") /\ ~Spawned("kill") /\ kp_signals = <<>>
        /\ kp_pc = "exit" => kp_exit = 1

\* C13, amended: the status is 0 when a help flag is reached before any
\* invalid argument and 1 otherwise; in both cases no lookup or kill is made.
C13_ExitsOneUnlessHelp ==
    (kp_pc # "idle" /\ (RootMissing \/ HasInvalidArg)) =>
        /\ ~Spawned("ss") /\ ~Spawned("kill") /\ kp_signals = <<>>
        /\ kp_pc = "exit" => kp_exit = (IF HelpComesFirst THEN 0 ELSE 1)

\* A non-root run asking for ports 80 and 8080 without --list, stopped by the
\* root check after `id` and before any lookup.
C13_Witness ==
    /\ kp_pc = "exit" /\ kp_exit = 1 /\ ~kp_root
    /\ kp_config.ports = <<80, 8080>> /\ ~kp_config.list_only
    /\ kp_spawned = <<"id">>

(***************************************************************************)
(*                   estimate: the command and its failures                *)
(***************************************************************************)

\* The words of a command line tail, one argument per word.
RECURSIVE WordsOf(_)
WordsOf(tail) ==
    IF tail = <<>> THEN <<>>
    ELSE [k \in 1..Len(tail[1]) |-> <<tail[1][k]>>] \o WordsOf(Tail(tail))

\* C14: the program handed to the spawn is the first word of the command as
\* written, and its arguments are the remaining words.
C14_QuotedCommandIsSplit ==
    \A k \in 1..Len(es_runs) :
        LET words == WordsOf(<<es_config.command>> \o es_config.args)
        IN  /\ es_runs[k].program = words[1]
            /\ es_runs[k].args = Tail(words)

\* The measured executions that were spawned.
SpawnedMeasured == SelectSeq(MeasuredRuns, LAMBDA x : x.spawned)

MinDuration(runs) ==
    IF runs = <<>> THEN 0
    ELSE CHOOSE d \in {runs[k].duration : k \in 1..Len(runs)} :
             \A k \in 1..Len(runs) : d <= runs[k].duration

MaxDurationOf(runs) ==
    IF runs = <<>> THEN 0
    ELSE CHOOSE d \in {runs[k].duration : k \in 1..Len(runs)} :
             \A k \in 1..Len(runs) : d >= runs[k].duration

\* C15: a failed spawn is the last execution, ends the program with status 1
\* and leaves the summary unprinted; a spawned execution that exits non-zero
\* leaves the loop running and, when measured, is counted in fail_count with
\* its duration in times, min, max, avg and total_time.
C15_SpawnFailureEndsRun ==
    es_pc # "idle" =>
        /\ \A k \in 1..Len(es_runs) :
               ~es_runs[k].spawned =>
                   k = Len(es_runs) /\ es_pc = "exit1" /\ es_printed = <<>>
        /\ es_pc = "exit1" => (es_runs # <<>> /\ ~es_runs[Len(es_runs)].spawned)
        /\ AllSpawned =>
               /\ es_pc \in {"loop", "printed"}
               /\ es_pc = "printed" => Len(es_runs) = total_runs(es_config)
               /\ Len(es_runs) = es_i
        /\ es_stats.fail_count
               = Cardinality({k \in 1..Len(SpawnedMeasured) : ~SpawnedMeasured[k].success})
        /\ es_stats.times
               = [k \in 1..Len(SpawnedMeasured) |-> SpawnedMeasured[k].duration]
        /\ es_stats.total_time = SumDurations(SpawnedMeasured)
        /\ es_stats.min = MinDuration(SpawnedMeasured)
        /\ es_stats.max = MaxDurationOf(SpawnedMeasured)
        /\ SpawnedMeasured # <<>> =>
               es_stats.avg = SumDurations(SpawnedMeasured) \div Len(SpawnedMeasured)

\* A spawn failure on a measured execution, after a warmup execution and a
\* measured execution that exited non-zero with the longest duration so far.
C15_Witness ==
    /\ es_pc = "exit1"
    /\ es_config.warmup = 1
    /\ Len(es_runs) = 3
    /\ es_runs[1].success /\ es_runs[1].duration = 1
    /\ ~es_runs[2].success /\ es_runs[2].duration = MaxDuration
    /\ es_stats.fail_count = 1 /\ es_stats.max = MaxDuration
    /\ es_printed = <<>>

(***************************************************************************)
(*                           ftree: properties                             *)
(***************************************************************************)

Printed(p) == \E k \in 1..Len(ft_out) : ft_out[k] = p

\* The entry at path p exists and passes the filters, as do its ancestors.
PassesFilters(p) ==
    \A k \in 1..Len(p) :
        LET q == SubSeq(p, 1, k)
        IN  ft_fs[q] # "none" /\ should_process_file(q[k], ft_config, ft_fs[q] = "dir")

\* The text given after -L, when there is one.
LevelGiven == \E k \in 1..(Len(ft_args) - 1) : ft_args[k] = OptL

LevelText == ft_args[(CHOOSE k \in 1..(Len(ft_args) - 1) : ft_args[k] = OptL) + 1]

\* The depth limit at work: nothing deeper than N is printed or counted,
\* -L 0 prints nothing, a text that is no number counts as 0.
DepthLimitKept ==
    /\ ft_config.max_depth = (IF IsDigits(LevelText) THEN DecimalValue(LevelText) ELSE 0)
    /\ \A k \in 1..Len(ft_out) : Len(ft_out[k]) <= ft_config.max_depth
    /\ ft_stats.total_dirs
           = Cardinality({k \in 1..Len(ft_out) : ft_fs[ft_out[k]] = "dir"})
    /\ ft_stats.total_files
           = Cardinality({k \in 1..Len(ft_out) : ft_fs[ft_out[k]] # "dir"})
    /\ ft_config.max_depth = 0 => ft_out = <<>>

\* Every entry within the limit that passes the filters has been printed.
AllWithinLimitPrinted ==
    \A p \in TreePaths :
        (Len(p) <= ft_config.max_depth /\ PassesFilters(p)) => Printed(p)

\* C16: with -L N nothing deeper than N is printed or counted, every entry at
\* depth <= N that passes the filters is printed by the end of the run, -L 0
\* prints no entry, and an N that is no number is treated as 0.
C16_MaxDisplayDepth ==
    (ft_pc \in {"walk", "done", "exit"} /\ LevelGiven /\ ~ft_config.help) =>
        /\ DepthLimitKept
        /\ ft_pc \in {"done", "exit"} => AllWithinLimitPrinted

\* What holds of C16: the limit is kept in every run, and every entry within
\* it is printed in the runs that end with the summary.
DepthLimitInCompletedWalks ==
    (ft_pc \in {"walk", "done", "exit"} /\ LevelGiven /\ ~ft_config.help) =>
        /\ DepthLimitKept
        /\ ft_pc = "done" => AllWithinLimitPrinted

====
